---------------------------- MODULE Spec2Model ----------------------------
(***************************************************************************)
(* License server (src/app.py): the licenses / usage_stats / admin_logs    *)
(* tables, the /api/verify, /api/auth/local and /api/users/me endpoints    *)
(* and the dashboard's create / extend / reset-hwid / delete operations.   *)
(*                                                                         *)
(* Every request is served by a worker p.  A handler is cut into steps at  *)
(* its database statements: each step is one committed transaction (or a   *)
(* read) together with the local computation that follows it, so workers   *)
(* interleave exactly where the gevent workers of the program can.         *)
(* Time is counted in days (the unit of timedelta(days=..), of INTERVAL    *)
(* '30 days' and of JWT_EXPIRATION_DAYS).                                  *)
(*                                                                         *)
(* The database outlives the process (CREATE TABLE IF NOT EXISTS), so the  *)
(* initial store holds any rows the schema admits, among them rows with    *)
(* is_active = FALSE, which the handlers test for.                         *)
(***************************************************************************)
EXTENDS Integers, Sequences, FiniteSets, TLC

(***************************************************************************)
(* Bounds of the model.                                                    *)
(***************************************************************************)
MaxCalls == 3
MaxNow == 1
MaxWeeks == 1

Keys == {"K1"}
Devices == {"D1", "D2"}
InitExpiry == {0, 1}
CreateDays == {0, 1}
StakeLevels == {0, 50}
Plans == {"Pro", "Standard"}

(***************************************************************************)
(* Program constants and the schema's NULLs.  Each gunicorn worker process  *)
(* serves one request at a time between two database statements (psycopg2  *)
(* blocks), so `workers` requests are in flight at most.                   *)
(***************************************************************************)
workers == 2
JWT_EXPIRATION_DAYS == 7
ExtendDays == 30
DefaultStake == 25
NULL == "NULL"
NoTime == -1
Procs == 1 .. workers
InitHwid == {NULL, "D1"}

VARIABLES
  licenses,      \* table licenses: license_key -> row (DOMAIN = the keys stored)
  usage_stats,   \* table usage_stats, in insertion order
  admin_logs,    \* table admin_logs, in insertion order
  tokens,        \* the JWTs issued so far (held by clients)
  session,       \* TRUE iff the operator's browser holds session['admin']
  now,           \* the clock, in days
  calls,         \* number of requests received
  pc,            \* pc[p]: where worker p is in its handler
  call,          \* call[p]: the request worker p serves (after parsing)
  license_data,  \* the row worker p fetched (license_data / result), <<>> if none
  response       \* the response the step just taken sent (NoResponse if none)

store == <<licenses, usage_stats, admin_logs>>
locals == <<pc, call, license_data>>
vars == <<licenses, usage_stats, admin_logs, tokens, session, now, calls,
          pc, call, license_data, response>>

(***************************************************************************)
(* Rows, requests, responses.                                              *)
(***************************************************************************)
NewRow(expiry_date, plan, stake_level) ==
  [hwid |-> NULL, expiry_date |-> expiry_date, stake_level |-> stake_level,
   plan |-> plan, is_active |-> TRUE, last_used |-> NoTime]

InitRows ==
  { [NewRow(e, "Pro", DefaultStake) EXCEPT !.is_active = a, !.hwid = h] :
      e \in InitExpiry, a \in BOOLEAN, h \in InitHwid }

InitStores(K) ==
  UNION { [ks -> InitRows] : ks \in SUBSET K }

NoCall == [op |-> "none", license_key |-> "", hwid |-> ""]
NoResponse == [call |-> NoCall, status |-> 0, error |-> "", data |-> <<>>]

Reply(status, error) == [status |-> status, error |-> error, data |-> <<>>]
ReplyData(d) == [status |-> 200, error |-> "", data |-> <<d>>]

\* What request.json yields for a field that is null, or for any field of a
\* body that is no JSON object: a value without strip()
None == "None"

\* str.strip() on the request fields the clients send; a field that is
\* absent from the JSON object reads as ""
RawKeys(K) == K \cup {"", " K1 ", None}
RawHwids(D) == D \cup {"  ", " D1 ", None}
Strip(s) ==
  CASE s = "  " -> ""
    [] s = " K1 " -> "K1"
    [] s = " D1 " -> "D1"
    [] OTHER -> s

\* A worker takes a request when it is idle.
CanStart(p) == pc[p] = "idle" /\ calls < MaxCalls

\* Worker p returns r for request c and is idle again.
Finish(p, c, r) ==
  /\ pc' = [pc EXCEPT ![p] = "idle"]
  /\ call' = [call EXCEPT ![p] = NoCall]
  /\ license_data' = [license_data EXCEPT ![p] = <<>>]
  /\ response' = [call |-> c, status |-> r.status, error |-> r.error, data |-> r.data]

\* Worker p goes on serving c at step `where`, holding the row it fetched.
Goto(p, c, where, fetched) ==
  /\ pc' = [pc EXCEPT ![p] = where]
  /\ call' = [call EXCEPT ![p] = c]
  /\ license_data' = [license_data EXCEPT ![p] = fetched]
  /\ response' = NoResponse

(***************************************************************************)
(* SQL statements.                                                         *)
(***************************************************************************)
\* Faulty variant: the SELECT without `AND is_active = TRUE`
SelectActive_any(t, license_key) ==
  IF license_key \in DOMAIN t THEN <<t[license_key]>> ELSE <<>>

\* SELECT * FROM licenses WHERE license_key = %s AND is_active = TRUE
SelectActive(t, license_key) ==
  IF license_key \in DOMAIN t /\ t[license_key].is_active
  THEN <<t[license_key]>> ELSE <<>>

\* SELECT ... FROM licenses WHERE license_key = %s
SelectByKey(t, license_key) ==
  IF license_key \in DOMAIN t THEN <<t[license_key]>> ELSE <<>>

\* Faulty variant: the UPDATE without its WHERE clause
UpdateHwid_all(t, license_key, hwid) ==
  [k \in DOMAIN t |-> [t[k] EXCEPT !.hwid = hwid]]

\* UPDATE licenses SET hwid = %s WHERE license_key = %s
UpdateHwid(t, license_key, hwid) ==
  IF license_key \in DOMAIN t
  THEN [t EXCEPT ![license_key].hwid = hwid] ELSE t

\* Faulty variant: the time of use is not recorded
UpdateLastUsed_skip(t, license_key, ts) == t

\* UPDATE licenses SET last_used = CURRENT_TIMESTAMP WHERE license_key = %s
UpdateLastUsed(t, license_key, ts) ==
  IF license_key \in DOMAIN t
  THEN [t EXCEPT ![license_key].last_used = ts] ELSE t

\* INSERT INTO usage_stats (license_key, hwid, ip_address)
InsertUsage(u, license_key, hwid) ==
  Append(u, [license_key |-> license_key, hwid |-> hwid])

\* Faulty variant: the table keeps the latest row only
InsertLog_latest(l, action, target_key) ==
  <<[action |-> action, target_key |-> target_key]>>

\* INSERT INTO admin_logs (action, target_key, details)
InsertLog(l, action, target_key) ==
  Append(l, [action |-> action, target_key |-> target_key])

\* Faulty variant: each statement is committed on its own, and the failure
\* falls between the two
log_usage_split(license_key, hwid, ok) ==
  /\ usage_stats' = InsertUsage(usage_stats, license_key, hwid)
  /\ licenses' = IF ok THEN UpdateLastUsed(licenses, license_key, now) ELSE licenses

\* Faulty variant: a failed usage write takes the binding back
log_usage_undo(license_key, hwid, ok) ==
  IF ok
  THEN /\ usage_stats' = InsertUsage(usage_stats, license_key, hwid)
       /\ licenses' = UpdateLastUsed(licenses, license_key, now)
  ELSE /\ UNCHANGED usage_stats
       /\ licenses' = UpdateHwid(licenses, license_key, NULL)

(***************************************************************************)
(* log_usage: both statements in one transaction; any exception is         *)
(* swallowed and nothing is committed.                                     *)
(***************************************************************************)
log_usage(license_key, hwid, ok) ==
  IF ok
  THEN /\ usage_stats' = InsertUsage(usage_stats, license_key, hwid)
       /\ licenses' = UpdateLastUsed(licenses, license_key, now)
  ELSE UNCHANGED <<usage_stats, licenses>>

(***************************************************************************)
(* /api/verify                                                             *)
(***************************************************************************)
\* expiry_date.replace(tzinfo=utc) < datetime.now(utc)
VerifyExpired(expiry_date, t) == expiry_date < t

\* Faulty variant: the bound device is written again on every accepted call
VerifyCheck_rebind(fetched, hwid, t) ==
  IF fetched = <<>> THEN "invalid"
  ELSE IF VerifyExpired(fetched[1].expiry_date, t) THEN "expired"
  ELSE IF fetched[1].hwid = NULL \/ fetched[1].hwid = hwid THEN "bind"
  ELSE "mismatch"

\* What the handler decides from the row it fetched.
VerifyCheck(fetched, hwid, t) ==
  IF fetched = <<>> THEN "invalid"
  ELSE IF VerifyExpired(fetched[1].expiry_date, t) THEN "expired"
  ELSE IF fetched[1].hwid = NULL THEN "bind"
  ELSE IF fetched[1].hwid # hwid THEN "mismatch"
  ELSE "pass"

\* Faulty variant: the mismatch message names the bound device
VerifyError_leak(kind, fetched) ==
  CASE kind = "missing" -> Reply(400, "missing license_key or hwid")
    [] kind = "invalid" -> Reply(401, "invalid license key")
    [] kind = "expired" -> Reply(401, "license expired")
    [] kind = "mismatch" -> Reply(403, fetched[1].hwid)
    [] OTHER -> Reply(500, "server error")

\* The error responses; fetched is what the handler holds when it answers.
\* The handler's messages are fixed Chinese strings, written here in English.
VerifyError(kind, fetched) ==
  CASE kind = "missing" -> Reply(400, "missing license_key or hwid")
    [] kind = "invalid" -> Reply(401, "invalid license key")
    [] kind = "expired" -> Reply(401, "license expired")
    [] kind = "mismatch" -> Reply(403, "hwid mismatch, license bound to another device")
    [] OTHER -> Reply(500, "server error")

VerifySuccess(license_key, row, t) ==
  ReplyData([success |-> TRUE, license_key |-> license_key,
             expiry_date |-> row.expiry_date, stake_level |-> row.stake_level,
             days_remaining |-> row.expiry_date - t])

\* Request parsing, the SELECT, the expiry and binding checks: what the
\* handler does up to its first write, as [kind, fetched].  The AttributeError
\* of None.strip() is caught by the handler's `except Exception`.
VerifyFirst(t, license_key, hwid, tm, ok) ==
  IF license_key = None \/ hwid = None THEN [kind |-> "exception", fetched |-> <<>>]
  ELSE IF license_key = "" \/ hwid = "" THEN [kind |-> "missing", fetched |-> <<>>]
  ELSE IF ~ok THEN [kind |-> "exception", fetched |-> <<>>]
  ELSE [kind |-> VerifyCheck(SelectActive(t, license_key), hwid, tm),
        fetched |-> SelectActive(t, license_key)]

\* Faulty variant: last_used is stamped before the request is validated
verify_select_touch(p, raw_key, raw_hwid, ok) ==
  /\ CanStart(p)
  /\ calls' = calls + 1
  /\ LET c == [op |-> "verify", license_key |-> Strip(raw_key), hwid |-> Strip(raw_hwid)]
         first == VerifyFirst(licenses, c.license_key, c.hwid, now, ok)
     IN /\ licenses' = UpdateLastUsed(licenses, c.license_key, now)
        /\ IF first.kind = "bind" THEN Goto(p, c, "v_update", first.fetched)
           ELSE IF first.kind = "pass" THEN Goto(p, c, "v_log", first.fetched)
           ELSE Finish(p, c, VerifyError(first.kind, first.fetched))
  /\ UNCHANGED <<usage_stats, admin_logs, tokens, session, now>>

verify_select(p, raw_key, raw_hwid, ok) ==
  /\ CanStart(p)
  /\ calls' = calls + 1
  /\ LET c == [op |-> "verify", license_key |-> Strip(raw_key), hwid |-> Strip(raw_hwid)]
         first == VerifyFirst(licenses, c.license_key, c.hwid, now, ok)
     IN IF first.kind = "bind" THEN Goto(p, c, "v_update", first.fetched)
        ELSE IF first.kind = "pass" THEN Goto(p, c, "v_log", first.fetched)
        ELSE Finish(p, c, VerifyError(first.kind, first.fetched))
  /\ UNCHANGED <<store, tokens, session, now>>

\* first use: UPDATE licenses SET hwid = %s WHERE license_key = %s; commit
verify_update(p, ok) ==
  /\ pc[p] = "v_update"
  /\ IF ok
     THEN /\ licenses' = UpdateHwid(licenses, call[p].license_key, call[p].hwid)
          /\ pc' = [pc EXCEPT ![p] = "v_log"]
          /\ UNCHANGED <<call, license_data>>
          /\ response' = NoResponse
     ELSE /\ UNCHANGED licenses
          /\ Finish(p, call[p], VerifyError("exception", license_data[p]))
  /\ UNCHANGED <<usage_stats, admin_logs, tokens, session, now, calls>>

\* log_usage, then the 200 response
verify_log(p, ok) ==
  /\ pc[p] = "v_log"
  /\ log_usage(call[p].license_key, call[p].hwid, ok)
  /\ Finish(p, call[p], VerifySuccess(call[p].license_key, license_data[p][1], now))
  /\ UNCHANGED <<admin_logs, tokens, session, now, calls>>

(***************************************************************************)
(* /api/auth/local                                                         *)
(***************************************************************************)
\* datetime.now(utc) > expiry_date
AuthExpired(expiry_date, t) == t > expiry_date

\* `if db_hwid:` -- a NULL or empty hwid is no binding
Truthy(s) == s # NULL /\ s # ""

\* Faulty variant: a request without a device passes the binding check
AuthCheck_lax(result, hwid, t) ==
  IF result = <<>> THEN "invalid"
  ELSE IF AuthExpired(result[1].expiry_date, t) THEN "expired"
  ELSE IF Truthy(result[1].hwid) /\ Truthy(hwid)
       THEN IF hwid # result[1].hwid THEN "mismatch" ELSE "pass"
       ELSE IF Truthy(hwid) THEN "bind" ELSE "pass"

AuthCheck(result, hwid, t) ==
  IF result = <<>> THEN "invalid"
  ELSE IF AuthExpired(result[1].expiry_date, t) THEN "expired"
  ELSE IF Truthy(result[1].hwid)
       THEN IF ~Truthy(hwid) THEN "nohwid"
            ELSE IF hwid # result[1].hwid THEN "mismatch"
            ELSE "pass"
       ELSE IF Truthy(hwid) THEN "bind" ELSE "pass"

AuthError(kind, result) ==
  CASE kind = "nokey" -> Reply(401, "License Key is required")
    [] kind = "invalid" -> Reply(401, "Invalid License Key")
    [] kind = "expired" -> Reply(401, "License expired")
    [] kind = "nohwid" -> Reply(401, "HWID is required")
    [] kind = "mismatch" -> Reply(403, "HWID mismatch")
    [] OTHER -> Reply(500, "Database error")

\* expiry_date.isoformat().replace('+00:00', 'Z')
IsoZ(ts) == [iso |-> ts, tz |-> "Z"]

\* result.get('stake_level') or 25: a stored 0 is falsy and reads as 25
StakeOrDefault(stake_level) ==
  IF stake_level = 0 THEN DefaultStake ELSE stake_level

\* result.get('plan') or 'Pro'
PlanOrDefault(plan) == IF plan = "" THEN "Pro" ELSE plan

\* Faulty variant: the token lives one day
jwt_encode_short(license_key, stake_level, iat) ==
  [license_key |-> license_key, stake_level |-> stake_level,
   iat |-> iat, exp |-> iat + 1]

\* jwt.encode(jwt_payload, JWT_SECRET_KEY): iat = time.time(), exp = iat + 7 days
jwt_encode(license_key, stake_level, iat) ==
  [license_key |-> license_key, stake_level |-> stake_level,
   iat |-> iat, exp |-> iat + JWT_EXPIRATION_DAYS]

\* the user object both endpoints return, from a fetched row
UserInfo(license_key, row) ==
  [username |-> license_key, expired_at |-> IsoZ(row.expiry_date),
   plan |-> PlanOrDefault(row.plan),
   stakes_level |-> StakeOrDefault(row.stake_level),
   isPro |-> (PlanOrDefault(row.plan) = "Pro")]

AuthSuccess(license_key, row, t) ==
  ReplyData([jwt |-> jwt_encode(license_key, StakeOrDefault(row.stake_level), t),
             user |-> UserInfo(license_key, row)])

AuthFirst(t, license_key, hwid, tm, ok) ==
  IF license_key = "" THEN [kind |-> "nokey", result |-> <<>>]
  ELSE IF ~ok THEN [kind |-> "exception", result |-> <<>>]
  ELSE [kind |-> AuthCheck(SelectByKey(t, license_key), hwid, tm),
        result |-> SelectByKey(t, license_key)]

\* Mint the token and answer 200.
IssueToken(p, c, row) ==
  /\ tokens' = tokens \cup {jwt_encode(c.license_key, StakeOrDefault(row.stake_level), now)}
  /\ Finish(p, c, AuthSuccess(c.license_key, row, now))

auth_select(p, license_key, hwid, ok) ==
  /\ CanStart(p)
  /\ calls' = calls + 1
  /\ LET c == [op |-> "auth", license_key |-> license_key, hwid |-> hwid]
         first == AuthFirst(licenses, license_key, hwid, now, ok)
     IN IF first.kind = "bind"
        THEN Goto(p, c, "a_update", first.result) /\ UNCHANGED tokens
        ELSE IF first.kind = "pass" THEN IssueToken(p, c, first.result[1])
        ELSE Finish(p, c, AuthError(first.kind, first.result)) /\ UNCHANGED tokens
  /\ UNCHANGED <<store, session, now>>

\* automatic binding: the UPDATE (an exception is printed and ignored), then
\* the token
auth_update(p, ok) ==
  /\ pc[p] = "a_update"
  /\ licenses' = IF ok THEN UpdateHwid(licenses, call[p].license_key, call[p].hwid)
                 ELSE licenses
  /\ IssueToken(p, call[p], license_data[p][1])
  /\ UNCHANGED <<usage_stats, admin_logs, session, now, calls>>

(***************************************************************************)
(* /api/users/me                                                           *)
(***************************************************************************)
\* jwt.decode raises ExpiredSignatureError: past exp in every PyJWT, at exp
\* itself in some (edge)
JwtExpired(exp, t, edge) == exp < t \/ (edge /\ exp = t)

\* Faulty variant: is_active is not tested
MeCheck_trusting(result, t) ==
  IF result = <<>> THEN "notfound"
  ELSE IF AuthExpired(result[1].expiry_date, t) THEN "expired"
  ELSE "pass"

\* Faulty variant: a license without a bound device is treated as missing
MeCheck_bound(result, t) ==
  IF result = <<>> \/ result[1].hwid = NULL THEN "notfound"
  ELSE IF ~result[1].is_active THEN "deactivated"
  ELSE IF AuthExpired(result[1].expiry_date, t) THEN "expired"
  ELSE "pass"

MeCheck(result, t) ==
  IF result = <<>> THEN "notfound"
  ELSE IF ~result[1].is_active THEN "deactivated"
  ELSE IF AuthExpired(result[1].expiry_date, t) THEN "expired"
  ELSE "pass"

MeError(kind) ==
  CASE kind = "nobearer" -> Reply(401, "Unauthorized")
    [] kind = "badtoken" -> Reply(401, "Invalid token")
    [] kind = "tokenexpired" -> Reply(401, "Token expired")
    [] kind = "notfound" -> Reply(401, "License not found")
    [] kind = "deactivated" -> Reply(401, "License deactivated")
    [] kind = "expired" -> Reply(401, "License expired")
    [] OTHER -> Reply(500, "Server error")

\* header is "none" (no Bearer header), "forged" (bad signature) or "signed"
MeKind(t, header, token, tm, edge, ok) ==
  IF header = "none" THEN "nobearer"
  ELSE IF header = "forged" THEN "badtoken"
  ELSE IF JwtExpired(token.exp, tm, edge) THEN "tokenexpired"
  ELSE IF ~ok THEN "exception"
  ELSE MeCheck(SelectByKey(t, token.license_key), tm)

\* Faulty variant: an accepted token counts as a use of the license
users_me_touch(p, header, token, edge, ok) ==
  /\ pc[p] = "idle"
  /\ LET c == [op |-> "me", license_key |-> token.license_key, hwid |-> ""]
         kind == MeKind(licenses, header, token, now, edge, ok)
     IN IF kind = "pass"
        THEN /\ Finish(p, c, ReplyData(UserInfo(token.license_key, licenses[token.license_key])))
             /\ licenses' = UpdateLastUsed(licenses, token.license_key, now)
        ELSE Finish(p, c, MeError(kind)) /\ UNCHANGED licenses
  /\ UNCHANGED <<usage_stats, admin_logs, tokens, session, now, calls>>

users_me(p, header, token, edge, ok) ==
  /\ pc[p] = "idle"
  /\ LET c == [op |-> "me", license_key |-> token.license_key, hwid |-> ""]
         kind == MeKind(licenses, header, token, now, edge, ok)
     IN IF kind = "pass"
        THEN Finish(p, c, ReplyData(UserInfo(token.license_key, licenses[token.license_key])))
        ELSE Finish(p, c, MeError(kind))
  /\ UNCHANGED <<store, tokens, session, now, calls>>

(***************************************************************************)
(* The dashboard: /login, /logout, /create-license, /extend, /reset-hwid,  *)
(* /delete.  Each mutation commits, then log_action writes the audit row   *)
(* in a transaction of its own (an exception there is printed and          *)
(* swallowed).                                                             *)
(***************************************************************************)
Redirect(message_type) == Reply(302, message_type)

login(password_ok) ==
  /\ session' = (IF password_ok THEN TRUE ELSE session)
  /\ response' = NoResponse
  /\ UNCHANGED <<store, tokens, now, calls, locals>>

logout ==
  /\ session' = FALSE
  /\ response' = NoResponse
  /\ UNCHANGED <<store, tokens, now, calls, locals>>

\* INSERT INTO licenses ...: the UNIQUE constraint rejects a stored key
InsertLicense(t, license_key, row) ==
  [k \in DOMAIN t \cup {license_key} |-> IF k = license_key THEN row ELSE t[k]]

\* Faulty variant: the extension is counted from the current time
ExtendUpdate_fromNow(t, license_key) ==
  IF license_key \in DOMAIN t
  THEN [t EXCEPT ![license_key].expiry_date = now + ExtendDays] ELSE t

\* Faulty variant: an extension is granted only once per period
ExtendUpdate_once(t, license_key) ==
  IF license_key \in DOMAIN t /\ t[license_key].expiry_date < now + ExtendDays
  THEN [t EXCEPT ![license_key].expiry_date = @ + ExtendDays] ELSE t

\* UPDATE licenses SET expiry_date = expiry_date + INTERVAL '30 days'
ExtendUpdate(t, license_key) ==
  IF license_key \in DOMAIN t
  THEN [t EXCEPT ![license_key].expiry_date = @ + ExtendDays] ELSE t

\* Faulty variant: the UPDATE is never committed
ResetUpdate_lost(t, license_key) == t

\* Faulty variant: the reset also forgets when the license was last used
ResetUpdate_wipe(t, license_key) ==
  IF license_key \in DOMAIN t
  THEN [t EXCEPT ![license_key].hwid = NULL, ![license_key].last_used = NoTime] ELSE t

\* UPDATE licenses SET hwid = NULL WHERE license_key = %s
ResetUpdate(t, license_key) ==
  IF license_key \in DOMAIN t
  THEN [t EXCEPT ![license_key].hwid = NULL] ELSE t

\* Faulty variant: a soft delete
DeleteRow_soft(t, license_key) ==
  IF license_key \in DOMAIN t
  THEN [t EXCEPT ![license_key].is_active = FALSE] ELSE t

\* DELETE FROM licenses WHERE license_key = %s
DeleteRow(t, license_key) ==
  [k \in DOMAIN t \ {license_key} |-> t[k]]

\* Faulty variant: the statement runs before the session is looked at
NoSession_late(p, c) ==
  /\ licenses' = DeleteRow(licenses, c.license_key)
  /\ Finish(p, c, Redirect("login"))
  /\ UNCHANGED <<usage_stats, admin_logs, tokens, session, now>>

\* `if 'admin' not in session: return redirect(url_for('login'))`
NoSession(p, c) ==
  /\ Finish(p, c, Redirect("login"))
  /\ UNCHANGED <<store, tokens, session, now>>

\* Faulty variant: the audit row is written before the statement is tried
Failed_logged(p, c) ==
  /\ Finish(p, c, Redirect("error"))
  /\ admin_logs' = InsertLog(admin_logs, c.op, c.license_key)
  /\ UNCHANGED <<licenses, usage_stats, tokens, session, now>>

\* A mutation that raised: the message is an error, nothing is logged.
Failed(p, c) ==
  /\ Finish(p, c, Redirect("error"))
  /\ UNCHANGED <<store, tokens, session, now>>

\* A mutation that committed new contents t of licenses; log_action is next.
Committed(p, c, t) ==
  /\ licenses' = t
  /\ Goto(p, c, "log", <<>>)
  /\ UNCHANGED <<usage_stats, admin_logs, tokens, session, now>>

\* Faulty variant: the INSERT replaces a stored row of the same key
create_license_replace(p, sess, license_key, days, plan, stake_level, ok) ==
  /\ CanStart(p)
  /\ sess => session
  /\ calls' = calls + 1
  /\ LET c == [op |-> "create", license_key |-> license_key, hwid |-> ""]
     IN IF ~sess THEN NoSession(p, c)
        ELSE IF ~ok THEN Failed(p, c)
        ELSE Committed(p, c, InsertLicense(licenses, license_key,
                                           NewRow(now + days, plan, stake_level)))

\* sess: the request carries the operator's session cookie.
\* license_key: what generate_license_key() returned.
create_license(p, sess, license_key, days, plan, stake_level, ok) ==
  /\ CanStart(p)
  /\ sess => session
  /\ calls' = calls + 1
  /\ LET c == [op |-> "create", license_key |-> license_key, hwid |-> ""]
     IN IF ~sess THEN NoSession(p, c)
        ELSE IF ~ok \/ license_key \in DOMAIN licenses THEN Failed(p, c)
        ELSE Committed(p, c, InsertLicense(licenses, license_key,
                                           NewRow(now + days, plan, stake_level)))

Mutation(op, t, license_key) ==
  CASE op = "extend" -> ExtendUpdate(t, license_key)
    [] op = "reset" -> ResetUpdate(t, license_key)
    [] op = "delete" -> DeleteRow(t, license_key)

admin_mutate(p, op, sess, license_key, ok) ==
  /\ CanStart(p)
  /\ sess => session
  /\ calls' = calls + 1
  /\ LET c == [op |-> op, license_key |-> license_key, hwid |-> ""]
     IN IF ~sess THEN NoSession(p, c)
        ELSE IF ~ok THEN Failed(p, c)
        ELSE Committed(p, c, Mutation(op, licenses, license_key))

extend_license(p, sess, license_key, ok) == admin_mutate(p, "extend", sess, license_key, ok)
reset_hwid(p, sess, license_key, ok) == admin_mutate(p, "reset", sess, license_key, ok)
delete_license(p, sess, license_key, ok) == admin_mutate(p, "delete", sess, license_key, ok)

\* log_action(action, target_key, details), then the redirect with the
\* success message
log_action(p, ok) ==
  /\ pc[p] = "log"
  /\ admin_logs' = IF ok THEN InsertLog(admin_logs, call[p].op, call[p].license_key)
                   ELSE admin_logs
  /\ Finish(p, call[p], Redirect("success"))
  /\ UNCHANGED <<licenses, usage_stats, tokens, session, now, calls>>

\* A request to a URL for which the application registers no route (the
\* dashboard has none to deactivate or reactivate a license): Flask answers
\* 404 and no handler runs.
not_found(p, op, license_key) ==
  /\ CanStart(p)
  /\ calls' = calls + 1
  /\ Finish(p, [op |-> op, license_key |-> license_key, hwid |-> ""],
            Reply(404, "Not Found"))
  /\ UNCHANGED <<store, tokens, session, now>>

\* total, active and expired as the dashboard counts them
DashboardStats(t, tm) ==
  LET active == Cardinality({k \in DOMAIN t : t[k].is_active /\ t[k].expiry_date > tm})
  IN [total |-> Cardinality(DOMAIN t), active |-> active,
      expired |-> Cardinality(DOMAIN t) - active]

\* GET /admin: the session check, then the tables are read and rendered
admin_dashboard(p, sess, ok) ==
  /\ pc[p] = "idle"
  /\ sess => session
  /\ LET c == [op |-> "dashboard", license_key |-> "", hwid |-> ""]
     IN IF ~sess THEN Finish(p, c, Redirect("login"))
        ELSE IF ~ok THEN Finish(p, c, Reply(500, "database error"))
        ELSE Finish(p, c, ReplyData([stats |-> DashboardStats(licenses, now),
                                     logs |-> admin_logs]))
  /\ UNCHANGED <<store, tokens, session, now, calls>>

(***************************************************************************)
(* The clock.                                                              *)
(***************************************************************************)
\* Faulty variant: licenses are purged as they expire
Tick_purge ==
  /\ now < MaxNow
  /\ now' = now + 1
  /\ response' = NoResponse
  /\ licenses' = [k \in {j \in DOMAIN licenses : licenses[j].expiry_date >= now + 1}
                    |-> licenses[k]]
  /\ UNCHANGED <<usage_stats, admin_logs, tokens, session, calls, locals>>

Tick ==
  /\ now < MaxNow
  /\ now' = now + 1
  /\ response' = NoResponse
  /\ UNCHANGED <<store, tokens, session, calls, locals>>

\* A client keeps its token for the token lifetime before it calls again.
Sleep ==
  /\ now + JWT_EXPIRATION_DAYS <= MaxNow + MaxWeeks * JWT_EXPIRATION_DAYS
  /\ now' = now + JWT_EXPIRATION_DAYS
  /\ response' = NoResponse
  /\ UNCHANGED <<store, tokens, session, calls, locals>>

(***************************************************************************)
(* DeactivateLicense.  The handlers test is_active, but no endpoint of the *)
(* program writes it: the operation is taken from the service description  *)
(* (an admin mutation that flips active and writes an audit entry).        *)
(***************************************************************************)
DeactivateUpdate(t, license_key) ==
  IF license_key \in DOMAIN t
  THEN [t EXCEPT ![license_key].is_active = FALSE] ELSE t

deactivate_license(p, sess, license_key, ok) ==
  /\ CanStart(p)
  /\ sess => session
  /\ calls' = calls + 1
  /\ LET c == [op |-> "deactivate", license_key |-> license_key, hwid |-> ""]
     IN IF ~sess THEN NoSession(p, c)
        ELSE IF ~ok THEN Failed(p, c)
        ELSE Committed(p, c, DeactivateUpdate(licenses, license_key))

(***************************************************************************)
(* Specifications.                                                         *)
(***************************************************************************)
InitWith(K) ==
  /\ licenses \in InitStores(K)
  /\ usage_stats = <<>>
  /\ admin_logs = <<>>
  /\ tokens = {}
  /\ session = FALSE
  /\ now = 0
  /\ calls = 0
  /\ pc = [p \in Procs |-> "idle"]
  /\ call = [p \in Procs |-> NoCall]
  /\ license_data = [p \in Procs |-> <<>>]
  /\ response = NoResponse

Init == InitWith(Keys)

NoToken == [license_key |-> "", stake_level |-> 0, iat |-> 0, exp |-> 0]

Verify(p) ==
  \/ \E k \in RawKeys(Keys), h \in RawHwids(Devices), ok \in BOOLEAN :
       verify_select(p, k, h, ok)
  \/ \E ok \in BOOLEAN : verify_update(p, ok)
  \/ \E ok \in BOOLEAN : verify_log(p, ok)

Auth(p) ==
  \/ \E k \in Keys \cup {""}, h \in Devices \cup {""}, ok \in BOOLEAN :
       auth_select(p, k, h, ok)
  \/ \E ok \in BOOLEAN : auth_update(p, ok)

Me(p) ==
  \/ \E header \in {"none", "forged"} : users_me(p, header, NoToken, FALSE, TRUE)
  \/ \E token \in tokens, edge \in BOOLEAN, ok \in BOOLEAN :
       users_me(p, "signed", token, edge, ok)

Create(p) ==
  \E sess \in BOOLEAN, k \in Keys, d \in CreateDays, pl \in Plans,
     st \in StakeLevels, ok \in BOOLEAN :
    create_license(p, sess, k, d, pl, st, ok)

\* The keys generate_license_key() can return: the stored one and a fresh one.
GenKeys == Keys \cup {"K2"}

Generate(p) ==
  \E sess \in BOOLEAN, k \in GenKeys, d \in CreateDays, pl \in Plans,
     st \in StakeLevels, ok \in BOOLEAN :
    create_license(p, sess, k, d, pl, st, ok)

Extend(p) ==
  \E sess \in BOOLEAN, k \in Keys, ok \in BOOLEAN : extend_license(p, sess, k, ok)

Reset(p) ==
  \E sess \in BOOLEAN, k \in Keys, ok \in BOOLEAN : reset_hwid(p, sess, k, ok)

Delete(p) ==
  \E sess \in BOOLEAN, k \in Keys, ok \in BOOLEAN : delete_license(p, sess, k, ok)

Log(p) == \E ok \in BOOLEAN : log_action(p, ok)

Unrouted(p) ==
  \E op \in {"deactivate", "reactivate"}, k \in Keys : not_found(p, op, k)

Dashboard(p) == \E sess \in BOOLEAN, ok \in BOOLEAN : admin_dashboard(p, sess, ok)

Operator ==
  \/ \E password_ok \in BOOLEAN : login(password_ok)
  \/ logout

\* The verification engine, both binding paths, and the operations that
\* unbind or remove a license.
Next ==
  \/ \E p \in Procs : Verify(p)
  \/ \E p \in Procs : Auth(p)
  \/ \E p \in Procs : Reset(p)
  \/ \E p \in Procs : Delete(p)
  \/ \E p \in Procs : Log(p)
  \/ Operator
  \/ Tick

Spec == Init /\ [][Next]_vars

\* The client endpoints alone (no operator).
NextClients ==
  \/ \E p \in Procs : Verify(p)
  \/ \E p \in Procs : Auth(p)
  \/ Tick

SpecClients == Init /\ [][NextClients]_vars

Deactivate(p) ==
  \E sess \in BOOLEAN, k \in Keys, ok \in BOOLEAN : deactivate_license(p, sess, k, ok)

\* Token issuance and the authenticated endpoint over the lifetime of a
\* token, with the extension of its license.
NextTokens ==
  \/ \E p \in Procs : Auth(p)
  \/ \E p \in Procs : Me(p)
  \/ \E p \in Procs : Extend(p)
  \/ \E p \in Procs : Log(p)
  \/ Operator
  \/ Tick
  \/ Sleep

SpecTokens == Init /\ [][NextTokens]_vars

\* Tokens and the deactivation of their license.
NextRevoke ==
  \/ \E p \in Procs : Auth(p)
  \/ \E p \in Procs : Me(p)
  \/ \E p \in Procs : Deactivate(p)
  \/ \E p \in Procs : Log(p)
  \/ Operator
  \/ Tick

SpecRevoke == Init /\ [][NextRevoke]_vars

\* Licenses as the operator creates them, seen through a token.
NextSnapshot ==
  \/ \E p \in Procs : Auth(p)
  \/ \E p \in Procs : Me(p)
  \/ \E p \in Procs : Create(p)
  \/ \E p \in Procs : Log(p)
  \/ Operator
  \/ Tick

SpecSnapshot == Init /\ [][NextSnapshot]_vars

\* Deletion, seen from the three client endpoints.
NextDelete ==
  \/ \E p \in Procs : Verify(p)
  \/ \E p \in Procs : Auth(p)
  \/ \E p \in Procs : Me(p)
  \/ \E p \in Procs : Delete(p)
  \/ \E p \in Procs : Log(p)
  \/ Operator
  \/ Tick

SpecDelete == Init /\ [][NextDelete]_vars

\* The dashboard alone, and the requests it has no route for.
NextAdmin ==
  \/ \E p \in Procs : Create(p)
  \/ \E p \in Procs : Extend(p)
  \/ \E p \in Procs : Reset(p)
  \/ \E p \in Procs : Delete(p)
  \/ \E p \in Procs : Log(p)
  \/ \E p \in Procs : Dashboard(p)
  \/ \E p \in Procs : Unrouted(p)
  \/ Operator
  \/ Tick

SpecAdmin == Init /\ [][NextAdmin]_vars

\* Device reset, with the verifications that bind and stamp a license.
NextReset ==
  \/ \E p \in Procs : Verify(p)
  \/ \E p \in Procs : Reset(p)
  \/ \E p \in Procs : Log(p)
  \/ Operator
  \/ Tick

SpecReset == Init /\ [][NextReset]_vars

\* The client endpoints beside two dashboard mutations, at one instant.
NextAudit ==
  \/ \E p \in Procs : Verify(p)
  \/ \E p \in Procs : Auth(p)
  \/ \E p \in Procs : Me(p)
  \/ \E p \in Procs : Reset(p)
  \/ \E p \in Procs : Delete(p)
  \/ \E p \in Procs : Log(p)
  \/ Operator

SpecAudit == Init /\ [][NextAudit]_vars

\* License creation with a generator that can hit a stored key.
NextCreate ==
  \/ \E p \in Procs : Generate(p)
  \/ \E p \in Procs : Log(p)
  \/ Operator
  \/ Tick

SpecCreate == Init /\ [][NextCreate]_vars

\* Requests that name a key and a device as the clients hold them.
VerifyStored(p) ==
  \/ \E k \in Keys, h \in Devices, ok \in BOOLEAN : verify_select(p, k, h, ok)
  \/ \E ok \in BOOLEAN : verify_update(p, ok)
  \/ \E ok \in BOOLEAN : verify_log(p, ok)

AuthStored(p) ==
  \/ \E k \in Keys, h \in Devices, ok \in BOOLEAN : auth_select(p, k, h, ok)
  \/ \E ok \in BOOLEAN : auth_update(p, ok)

\* The store holds a license that is deactivated or about to expire.
InitLapsed ==
  /\ InitWith(Keys)
  /\ \A k \in Keys :
       k \in DOMAIN licenses /\ (~licenses[k].is_active \/ licenses[k].expiry_date = 0)

\* Every operation on a stored license, and the clock.
NextStore ==
  \/ \E p \in Procs : VerifyStored(p)
  \/ \E p \in Procs : AuthStored(p)
  \/ \E p \in Procs : Me(p)
  \/ \E p \in Procs : Extend(p)
  \/ \E p \in Procs : Reset(p)
  \/ \E p \in Procs : Delete(p)
  \/ \E p \in Procs : Log(p)
  \/ Operator
  \/ Tick

SpecStore == InitLapsed /\ [][NextStore]_vars

\* Two licenses side by side: both stored, active, unbound and expiring at
\* time 1.
InitPair ==
  /\ InitWith(GenKeys)
  /\ DOMAIN licenses = GenKeys
  /\ \A k \in GenKeys :
       licenses[k].is_active /\ licenses[k].expiry_date = 1 /\ licenses[k].hwid = NULL

\* The operations that write a license, each for either key.
PairCall(p) ==
  \E k \in GenKeys, ok \in BOOLEAN :
    \/ \E h \in Devices : verify_select(p, k, h, ok)
    \/ \E h \in Devices : auth_select(p, k, h, ok)
    \/ \E sess \in BOOLEAN : extend_license(p, sess, k, ok)
    \/ \E sess \in BOOLEAN : reset_hwid(p, sess, k, ok)
    \/ \E sess \in BOOLEAN : delete_license(p, sess, k, ok)

PairStep(p) ==
  \E ok \in BOOLEAN :
    \/ verify_update(p, ok)
    \/ verify_log(p, ok)
    \/ auth_update(p, ok)
    \/ log_action(p, ok)

NextPair ==
  \/ \E p \in Procs : PairCall(p)
  \/ \E p \in Procs : PairStep(p)
  \/ Operator

SpecPair == InitPair /\ [][NextPair]_vars

\* Tokens across a device reset and a new binding, at one instant.
NextRebind ==
  \/ \E p \in Procs : AuthStored(p)
  \/ \E p \in Procs : Me(p)
  \/ \E p \in Procs : Reset(p)
  \/ \E p \in Procs : Log(p)
  \/ Operator

SpecRebind == Init /\ [][NextRebind]_vars

(***************************************************************************)
(* Properties.                                                             *)
(***************************************************************************)
\* A license is usable iff it is active and its expiry lies in the future.
Usable(row, t) == row.is_active /\ row.expiry_date > t

Stored(k) == k \in DOMAIN licenses

\* The step just taken answered a request of endpoint op.
Answered(op) == response # NoResponse /\ response.call.op = op

\* This step receives a request of endpoint op ...
Started(op) ==
  /\ calls' = calls + 1
  /\ \/ response'.call.op = op
     \/ \E p \in Procs : pc[p] = "idle" /\ pc'[p] # "idle" /\ call'[p].op = op

\* ... namely this one.
NewCall ==
  IF response' # NoResponse THEN response'.call
  ELSE call'[CHOOSE p \in Procs : pc[p] = "idle" /\ pc'[p] # "idle"]

\* C1: first use is race safe: of the concurrent first-use Verify calls for
\* one usable license with distinct devices exactly one succeeds, so (no
\* reset being possible) all recorded successful verifications of the key
\* are by one device, and the stored device is that of the call that
\* succeeded.
C1_FirstUseRaceSafe ==
  \A i, j \in DOMAIN usage_stats :
    LET k == usage_stats[i].license_key
    IN (Stored(k) /\ Usable(licenses[k], now) /\ usage_stats[j].license_key = k)
         => /\ usage_stats[i].hwid = usage_stats[j].hwid
            /\ licenses[k].hwid = usage_stats[i].hwid

\* C2: a Verify call for (key, d) that completes with success leaves the
\* stored device of key equal to d (no ResetDevice or DeleteLicense exists
\* in the specification this is checked under).
C2_AcceptedDeviceIsStored ==
  (Answered("verify") /\ response.status = 200 /\ Stored(response.call.license_key)
     /\ Usable(licenses[response.call.license_key], now))
    => licenses[response.call.license_key].hwid = response.call.hwid

\* C3: the stored device of a license never changes from one device
\* directly to another one.
C3_DeviceSetAtMostOnce ==
  [][\A k \in DOMAIN licenses \cap DOMAIN licenses' :
       (licenses[k].hwid # NULL /\ licenses'[k].hwid # NULL)
         => licenses'[k].hwid = licenses[k].hwid]_vars

\* A Verify request with both fields present after trimming.
WellFormed(c) == c.license_key # "" /\ c.hwid # ""

\* This step receives a well-formed Verify request and the store answers.
VerifyArrives ==
  Started("verify") /\ WellFormed(NewCall) /\ response'.status # 500

\* The license of request c is stored, usable and unbound or bound to c's device.
Acceptable(t, c, tm) ==
  /\ c.license_key \in DOMAIN t
  /\ Usable(t[c.license_key], tm)
  /\ t[c.license_key].hwid \in {NULL, c.hwid}

\* A call past its checks ends with the 200 response (or a storage error).
AcceptedSucceeds ==
  \A p \in Procs :
    (pc[p] \in {"v_update", "v_log"} /\ pc'[p] = "idle" /\ response'.status # 500)
      => (response'.status = 200 /\ response'.call = call[p])

\* C4: a well-formed Verify, served without interference, succeeds iff the
\* license is active, expires after now and is unbound or bound to the
\* requesting device; in every other case it returns an error.
C4_VerifySucceedsIffUsable ==
  [][/\ VerifyArrives
          => /\ (response' = NoResponse) <=> Acceptable(licenses, NewCall, now)
             /\ response'.status # 200
     /\ AcceptedSucceeds]_vars

\* C5: Verify on an active license with expires_at <= now fails with Expired,
\* whatever the device.
C5_ExpiredAtOrBeforeNow ==
  [][(/\ VerifyArrives
      /\ Stored(NewCall.license_key)
      /\ licenses[NewCall.license_key].is_active
      /\ licenses[NewCall.license_key].expiry_date <= now)
       => (response'.status = 401 /\ response'.error = "license expired")]_vars

\* C6: a Verify call that returns an error (400, 401, 403) has written
\* nothing: it ends in the step that received it, and that step leaves
\* licenses, usage_stats and admin_logs as they were.
C6_FailedVerifyChangesNothing ==
  [][(response'.call.op = "verify" /\ response'.status \in {400, 401, 403})
       => (calls' = calls + 1 /\ UNCHANGED store)]_vars

C6_Witness ==
  /\ Answered("verify")
  /\ response.status = 403
  /\ Stored(response.call.license_key)
  /\ licenses[response.call.license_key].hwid \notin {NULL, response.call.hwid}

\* C7: a Verify for (key, d) on a usable license already bound to d is
\* accepted without another binding write, ends with the 200 response and
\* leaves every stored device as it was.
C7_IdempotentRetry ==
  [][/\ (/\ VerifyArrives
         /\ Acceptable(licenses, NewCall, now)
         /\ licenses[NewCall.license_key].hwid = NewCall.hwid)
          => \E p \in Procs :
               pc[p] = "idle" /\ pc'[p] = "v_log" /\ call'[p] = NewCall
     /\ \A p \in Procs :
          (pc[p] = "v_log" /\ pc'[p] # "v_log")
            => /\ response'.status = 200
               /\ response'.call = call[p]
               /\ DOMAIN licenses' = DOMAIN licenses
               /\ \A k \in DOMAIN licenses : licenses'[k].hwid = licenses[k].hwid]_vars

\* The license was bound by Verify (no login ever succeeded) and the same
\* device has verified a second time.
C7_Witness ==
  /\ Answered("verify")
  /\ response.status = 200
  /\ tokens = {}
  /\ Stored(response.call.license_key)
  /\ licenses[response.call.license_key].hwid = "D2"
  /\ response.call.hwid = "D2"
  /\ Len(usage_stats) = 2
  /\ usage_stats[1] = usage_stats[2]

\* C8: on a usable license bound to D1, Verify with another device D2 fails
\* with DeviceMismatch and changes no license; ResetDevice clears the stored
\* device; Verify with D2 on the then unbound license is accepted, stores D2
\* and succeeds.
C8_RebindAfterReset ==
  [][/\ (/\ VerifyArrives
         /\ Stored(NewCall.license_key)
         /\ Usable(licenses[NewCall.license_key], now)
         /\ licenses[NewCall.license_key].hwid \notin {NULL, NewCall.hwid})
          => /\ response'.status = 403
             /\ response'.error = "hwid mismatch, license bound to another device"
             /\ licenses' = licenses
     /\ \A p \in Procs :
          (pc[p] = "idle" /\ pc'[p] = "log" /\ call'[p].op = "reset"
             /\ Stored(call'[p].license_key))
            => /\ call'[p].license_key \in DOMAIN licenses'
               /\ licenses'[call'[p].license_key].hwid = NULL
     /\ (/\ VerifyArrives
         /\ Acceptable(licenses, NewCall, now)
         /\ licenses[NewCall.license_key].hwid = NULL)
          => \E p \in Procs :
               pc[p] = "idle" /\ pc'[p] = "v_update" /\ call'[p] = NewCall
     /\ \A p \in Procs :
          (pc[p] = "v_update" /\ pc'[p] = "v_log" /\ Stored(call[p].license_key))
            => licenses'[call[p].license_key].hwid = call[p].hwid
     /\ AcceptedSucceeds]_vars

\* D1 verified, the operator reset the device, D2 verified and is now stored.
C8_Witness ==
  /\ Answered("verify")
  /\ response.status = 200
  /\ response.call.hwid = "D2"
  /\ Stored(response.call.license_key)
  /\ licenses[response.call.license_key].hwid = "D2"
  /\ Len(usage_stats) = 2
  /\ usage_stats[1].hwid = "D1"
  /\ usage_stats[2].hwid = "D2"
  /\ \E i \in DOMAIN admin_logs : admin_logs[i].action = "reset"

\* What the caller of /api/verify learns from the handler's checks on store t.
VerifyAnswer(t, license_key, hwid, tm) ==
  LET first == VerifyFirst(t, license_key, hwid, tm, TRUE)
  IN IF first.kind \in {"bind", "pass"} THEN Reply(200, "accepted")
     ELSE VerifyError(first.kind, first.fetched)

\* What the caller of /api/auth/local learns from the handler's checks.
AuthAnswer(t, license_key, hwid, tm) ==
  LET first == AuthFirst(t, license_key, hwid, tm, TRUE)
  IN IF first.kind \in {"bind", "pass"} THEN Reply(200, "accepted")
     ELSE AuthError(first.kind, first.result)

Sent == [status |-> response'.status, error |-> response'.error, data |-> response'.data]

\* C9: Verify answers a deactivated key exactly as it answers the same key
\* when it is not stored at all (same status, same body), whatever the
\* deactivated license's expiry and binding, and changes nothing.
C9_DeactivatedLikeAbsent ==
  /\ [](\A k \in DOMAIN licenses, d \in Devices :
          ~licenses[k].is_active
            => VerifyAnswer(licenses, k, d, now)
                 = VerifyAnswer(DeleteRow(licenses, k), k, d, now))
  /\ [][(/\ VerifyArrives
         /\ (Stored(NewCall.license_key) => ~licenses[NewCall.license_key].is_active))
          => /\ Sent = Reply(401, "invalid license key")
             /\ UNCHANGED store]_vars

\* A deactivated license bound to another device, or expired, was answered.
C9_Witness ==
  /\ Answered("verify")
  /\ response.status = 401
  /\ Stored(response.call.license_key)
  /\ ~licenses[response.call.license_key].is_active
  /\ \/ licenses[response.call.license_key].hwid \notin {NULL, response.call.hwid}
     \/ licenses[response.call.license_key].expiry_date < now

\* Device identifiers a store may hold.
AnyDevice == Devices \cup {"D3"}

WithHwid(t, k, hwid) == [t EXCEPT ![k].hwid = hwid]

\* C10: with the license bound to another device than the requesting one,
\* /api/verify and /api/auth/local answer the same whichever device that
\* is, and what they send is that answer.
C10_MismatchHidesDevice ==
  /\ [](\A k \in DOMAIN licenses, other \in AnyDevice, d \in AnyDevice :
          (licenses[k].hwid # NULL /\ d \notin {licenses[k].hwid, other})
            => /\ VerifyAnswer(licenses, k, d, now)
                    = VerifyAnswer(WithHwid(licenses, k, other), k, d, now)
               /\ AuthAnswer(licenses, k, d, now)
                    = AuthAnswer(WithHwid(licenses, k, other), k, d, now))
  /\ [][/\ (Started("verify") /\ response' # NoResponse /\ response'.status # 500)
             => Sent = VerifyAnswer(licenses, NewCall.license_key, NewCall.hwid, now)
        /\ (Started("auth") /\ response'.status \in {401, 403})
             => Sent = AuthAnswer(licenses, NewCall.license_key, NewCall.hwid, now)]_vars

C10_Witness ==
  /\ response.call.op \in {"verify", "auth"}
  /\ response.status = 403
  /\ Stored(response.call.license_key)
  /\ licenses[response.call.license_key].hwid = "D1"
  /\ response.call.hwid = "D2"

\* C11: a token is issued only for a license that at that moment is active
\* and unexpired, to a request with a non-empty device identifier that is
\* the license's stored device when the call completes.
C11_TokenOnlyAfterVerification ==
  [][(response'.call.op = "auth" /\ response'.status = 200)
       => LET c == response'.call
          IN /\ c.license_key \in DOMAIN licenses'
             /\ Usable(licenses'[c.license_key], now)
             /\ c.hwid # ""
             /\ licenses'[c.license_key].hwid = c.hwid]_vars

\* This step answers an /api/users/me request that carried a signed token
\* of key k.
MeStep(k) == response'.call.op = "me" /\ response'.call.license_key = k

\* C12: Authenticate with a validly signed, unexpired token (and a store that
\* answers) fails with NotFound if the license is absent, with Deactivated
\* if it is not active, with Expired if expires_at <= now, and succeeds
\* otherwise.
C12_AuthenticateRereadsLicense ==
  [][\A k \in Keys :
       (MeStep(k) /\ response'.error \notin {"Token expired", "Server error"})
         => /\ response'.error =
                 (IF ~Stored(k) THEN "License not found"
                  ELSE IF ~licenses[k].is_active THEN "License deactivated"
                  ELSE IF licenses[k].expiry_date <= now THEN "License expired"
                  ELSE "")
            /\ response'.status = (IF response'.error = "" THEN 200 ELSE 401)]_vars

\* C13: a successful Authenticate (on a usable license) reports the tier,
\* plan and expiry the license has in the store at the time of the call.
C13_FreshSnapshot ==
  [][\A k \in Keys :
       (MeStep(k) /\ response'.status = 200 /\ Stored(k) /\ Usable(licenses[k], now))
         => /\ response'.data[1].stakes_level = licenses[k].stake_level
            /\ response'.data[1].plan = licenses[k].plan
            /\ response'.data[1].expired_at = IsoZ(licenses[k].expiry_date)]_vars

\* C14: while a license is deactivated, no Authenticate call with a token of
\* its key succeeds, whenever the token was issued, and Authenticate issues
\* no token.
C14_RevocationPropagates ==
  [][\A k \in Keys :
       (MeStep(k) /\ Stored(k) /\ ~licenses[k].is_active)
         => /\ response'.status \in {401, 500}
            /\ response'.error \in {"License deactivated", "Server error"}
            /\ tokens' = tokens]_vars

\* A token was issued, the operator deactivated the license, and the token
\* was then refused as deactivated.
C14_Witness ==
  /\ response.call.op = "me"
  /\ response.error = "License deactivated"
  /\ \E tok \in tokens : tok.license_key = response.call.license_key
  /\ \E i \in DOMAIN admin_logs :
       /\ admin_logs[i].action = "deactivate"
       /\ admin_logs[i].target_key = response.call.license_key

\* All tokens issued for key k expired before t / expire after t.
AllPast(k, t) == \A tok \in tokens : tok.license_key = k => tok.exp < t
AllAhead(k, t) == \A tok \in tokens : tok.license_key = k => tok.exp > t

\* C15: a token expires JWT_EXPIRATION_DAYS after it was issued, whatever the
\* license's expiry_date; a token past its expiry is refused with
\* TokenExpired whatever the state of the license, and a token before its
\* expiry never is.
C15_TokenLifetimeFixed ==
  /\ [](\A tok \in tokens : tok.exp = tok.iat + JWT_EXPIRATION_DAYS)
  /\ [][/\ (response'.call.op = "auth" /\ response'.status = 200)
             => /\ response'.data[1].jwt.iat = now
                /\ response'.data[1].jwt.exp = now + JWT_EXPIRATION_DAYS
                /\ response'.data[1].jwt \in tokens'
        /\ \A k \in Keys :
             /\ (MeStep(k) /\ AllPast(k, now))
                  => (response'.status = 401 /\ response'.error = "Token expired")
             /\ (MeStep(k) /\ AllAhead(k, now))
                  => response'.error # "Token expired"]_vars

\* A token was refused as expired while its license is usable, and a token
\* outlived a license that expired before it.
C15_Witness ==
  /\ response.call.op = "me"
  /\ response.error = "Token expired"
  /\ Stored(response.call.license_key)
  /\ Usable(licenses[response.call.license_key], now)
  /\ \E tok \in tokens : tok.license_key = response.call.license_key /\ tok.exp < now

\* Worker p receives a dashboard request of endpoint op and commits its
\* statement in this step (log_action is still to come).
Commits(p, op) == pc[p] = "idle" /\ pc'[p] = "log" /\ call'[p].op = op

\* Worker p runs log_action for a call of endpoint op and answers.
Logs(p, op) == pc[p] = "log" /\ call[p].op = op /\ pc'[p] = "idle"

\* The audit row of call c.
Entry(c) == [action |-> c.op, target_key |-> c.license_key]

\* log_action appends exactly the row of the call, or nothing when its
\* INSERT raised (the exception is swallowed).
AuditWritten(p) ==
  admin_logs' \in {Append(admin_logs, Entry(call[p])), admin_logs}

\* C16: ExtendLicense adds the extension to the stored expiry_date, whether
\* it lies in the future or in the past, and changes nothing else of the
\* license or of any other license.
C16_ExtendAddsToStoredExpiry ==
  [][\A p \in Procs :
       (Commits(p, "extend") /\ Stored(call'[p].license_key))
         => licenses' =
              [licenses EXCEPT ![call'[p].license_key].expiry_date = @ + ExtendDays]]_vars

\* A license whose expiry lay in the past has been extended twice.
C16_Witness ==
  /\ now = 1
  /\ Stored("K1")
  /\ licenses["K1"].expiry_date = 0 + 2 * ExtendDays
  /\ Len(admin_logs) = 2
  /\ \A i \in DOMAIN admin_logs : admin_logs[i] = [action |-> "extend", target_key |-> "K1"]

\* C17: ExtendLicense on a key that is not stored fails: the call is answered
\* at once with a failure and changes no license.
C17_ExtendMissingKeyFails ==
  [][(Started("extend") /\ ~Stored(NewCall.license_key))
       => /\ response' # NoResponse
          /\ response'.error \in {"error", "login"}
          /\ licenses' = licenses]_vars

AdminOps == {"create", "extend", "reset", "delete"}

\* C20: every call of an admin mutation endpoint made with the admin session
\* (answered with the success or the error message) has appended exactly one
\* audit row.
C20_OneAuditEntryPerCall ==
  [][(response'.call.op \in AdminOps /\ response'.error \in {"success", "error"})
       => Len(admin_logs') = Len(admin_logs) + 1]_vars

C22_NoSessionChangesNothing ==
  [][\A op \in AdminOps :
       /\ (Started(op) /\ ~session)
            => /\ response' # NoResponse
               /\ Sent = Redirect("login")
               /\ UNCHANGED store
       /\ (response'.call.op = op /\ response'.error = "login")
            => UNCHANGED store
       /\ (response'.call.op = "dashboard" /\ ~session)
            => Sent = Redirect("login") /\ UNCHANGED store]_vars

\* Nobody is logged in and the deletion of a stored, bound license was
\* turned away.
C22_Witness ==
  /\ ~session
  /\ response.call.op = "delete"
  /\ response.status = 302
  /\ response.error = "login"
  /\ Stored(response.call.license_key)
  /\ licenses[response.call.license_key].hwid # NULL
  /\ admin_logs = <<>>

\* C23: every created license starts unbound, active and never used, under a
\* key that was free, with expiry_date = creation time + duration, and its
\* expiry_date lies after the creation time for every duration the call
\* accepts.
C23_CreatedLicenseStartsFresh ==
  [][\A p \in Procs :
       Commits(p, "create")
         => LET k == call'[p].license_key
            IN /\ k \notin DOMAIN licenses
               /\ k \in DOMAIN licenses'
               /\ \A j \in DOMAIN licenses : licenses'[j] = licenses[j]
               /\ licenses'[k].hwid = NULL
               /\ licenses'[k].is_active
               /\ licenses'[k].last_used = NoTime
               /\ \E d \in CreateDays : licenses'[k].expiry_date = now + d
               /\ licenses'[k].expiry_date > now]_vars

\* C24: a create call whose generated key is already stored does not fail
\* while the generator has a free key left and the store works: the call is
\* retried with a new key.
C24_CreateRetriesOnCollision ==
  [][\A p \in Procs, k \in GenKeys, d \in CreateDays, pl \in Plans, st \in StakeLevels :
       (/\ create_license(p, TRUE, k, d, pl, st, TRUE)
        /\ k \in DOMAIN licenses
        /\ GenKeys \ DOMAIN licenses # {})
         => /\ response'.error # "error"
            /\ \E j \in GenKeys \ DOMAIN licenses : j \in DOMAIN licenses']_vars

\* The store already is what a call of op on key k leaves behind.
Applied(op, k) ==
  CASE op = "reset" -> Stored(k) /\ licenses[k].hwid = NULL
    [] op = "delete" -> ~Stored(k)
    [] op = "extend" ->
         /\ admin_logs # <<>>
         /\ admin_logs[Len(admin_logs)] = [action |-> "extend", target_key |-> k]
         /\ \A q \in Procs : pc[q] = "idle"

C26_DeactivateReactivateOffered ==
  [][\A op \in {"deactivate", "reactivate"} :
       (/\ Started(op)
        /\ session
        /\ Stored(NewCall.license_key)
        /\ response'.error \notin {"login", "error"})
         => licenses' =
              [licenses EXCEPT ![NewCall.license_key].is_active = (op = "reactivate")]]_vars

\* C27: a failure of the usage write never fails or rolls back the
\* verification: the log_usage step of a Verify call always ends in the 200
\* answer for that call and leaves every binding as it was, and when the
\* usage write failed (no usage record appended) it changes no license at
\* all, so a binding the call made stays.
C27_UsageFailureTolerated ==
  [][\A p \in Procs :
       (pc[p] = "v_log" /\ pc'[p] = "idle")
         => /\ response'.status = 200
            /\ response'.call = call[p]
            /\ \A k \in DOMAIN licenses :
                 k \in DOMAIN licenses' /\ licenses'[k].hwid = licenses[k].hwid
            /\ usage_stats' = usage_stats => licenses' = licenses]_vars

\* A first-use verification by D2 succeeded although its usage write failed:
\* no usage record, last_used never set, the binding in place.
C27_Witness ==
  /\ response.call.op = "verify"
  /\ response.status = 200
  /\ response.call.hwid = "D2"
  /\ usage_stats = <<>>
  /\ tokens = {}
  /\ Stored(response.call.license_key)
  /\ licenses[response.call.license_key].hwid = "D2"
  /\ licenses[response.call.license_key].last_used = NoTime

\* What a Verify call of worker p may do to the store in one step: its SELECT
\* step writes nothing; its UPDATE step writes the call's hwid to the call's
\* license or (having failed) nothing, never a usage record, and goes on to
\* log_usage or answers; its log_usage step answers the call.
VerifyWritesOnce(p) ==
  /\ (pc[p] = "idle" /\ pc'[p] # "idle" /\ call'[p].op = "verify")
       => UNCHANGED store
  /\ (pc[p] = "v_update" /\ pc'[p] # "v_update")
       => /\ pc'[p] \in {"v_log", "idle"}
          /\ usage_stats' = usage_stats
          /\ licenses' \in {licenses,
                            [licenses EXCEPT ![call[p].license_key].hwid = call[p].hwid]}
  /\ (pc[p] = "v_log" /\ pc'[p] # "v_log") => pc'[p] = "idle"

\* C28: the log_usage step of every successful Verify call appends exactly
\* one usage record with the call's key and device and sets last_used of that
\* license to the current time; no Verify call appends more than one usage
\* record or writes the binding more than once, and no step is retried.
C28_OneUsageRecordPerSuccess ==
  [][\A p \in Procs :
       /\ VerifyWritesOnce(p)
       /\ (pc[p] = "v_log" /\ pc'[p] = "idle")
            => /\ response'.status = 200
               /\ usage_stats' =
                    Append(usage_stats, [license_key |-> call[p].license_key,
                                         hwid |-> call[p].hwid])
               /\ licenses' = [licenses EXCEPT ![call[p].license_key].last_used = now]]_vars

\* C28, amended: the log_usage step of a successful Verify call either
\* appends exactly one usage record with the call's key and device and sets
\* last_used of that license to the current time, or (the usage write having
\* failed) appends nothing and changes no license; no Verify call appends
\* more than one usage record or writes the binding more than once, and no
\* step is retried.
C28_AtMostOneUsageRecord ==
  [][\A p \in Procs :
       /\ VerifyWritesOnce(p)
       /\ (pc[p] = "v_log" /\ pc'[p] = "idle")
            => /\ response'.status = 200
               /\ \/ /\ usage_stats' =
                          Append(usage_stats, [license_key |-> call[p].license_key,
                                               hwid |-> call[p].hwid])
                     /\ licenses' =
                          [licenses EXCEPT ![call[p].license_key].last_used = now]
                  \/ /\ usage_stats' = usage_stats
                     /\ licenses' = licenses]_vars

\* A first-use verification by D2 succeeded at time 1 and left one usage
\* record, the binding and the time of use.
C28_Witness ==
  /\ now = 1
  /\ response.call.op = "verify"
  /\ response.status = 200
  /\ usage_stats = <<[license_key |-> response.call.license_key, hwid |-> "D2"]>>
  /\ tokens = {}
  /\ licenses[response.call.license_key].hwid = "D2"
  /\ licenses[response.call.license_key].last_used = 1

\* The request lacks a license_key or a hwid: the field is absent, null,
\* empty, or empty once trimmed.
Malformed(c) == c.license_key \in {"", None} \/ c.hwid \in {"", None}

\* C29: a Verify request whose license_key or hwid is missing, empty or empty
\* after trimming is answered 400 at once, whether or not the store can be
\* reached, and changes nothing; a request for a key that is not stored or
\* whose license has expired is answered 401, and one for a usable license
\* bound to another device 403.
C29_MalformedIs400 ==
  [][/\ (Started("verify") /\ Malformed(NewCall))
          => /\ response' # NoResponse
             /\ response'.status = 400
             /\ UNCHANGED store
     /\ (Started("verify") /\ ~Malformed(NewCall) /\ response'.status # 500)
          => LET k == NewCall.license_key
             IN /\ ~Stored(k) => response'.status = 401
                /\ (Stored(k) /\ licenses[k].is_active /\ licenses[k].expiry_date < now)
                     => response'.status = 401
                /\ (/\ Stored(k)
                    /\ Usable(licenses[k], now)
                    /\ licenses[k].hwid \notin {NULL, NewCall.hwid})
                     => response'.status = 403]_vars

\* C30: a license leaves the store only in the DELETE step of a delete call
\* for its key; the passage of time changes no license; and a license that
\* stays keeps its is_active, plan and stake_level in every step and its
\* expiry_date in every step but the UPDATE of an extend call for its key, so
\* that an expired or deactivated license remains as it is until deleted.
C30_RemovedOnlyByDelete ==
  [][/\ \A k \in DOMAIN licenses :
          IF k \in DOMAIN licenses'
          THEN /\ licenses'[k].is_active = licenses[k].is_active
               /\ licenses'[k].plan = licenses[k].plan
               /\ licenses'[k].stake_level = licenses[k].stake_level
               /\ licenses'[k].expiry_date # licenses[k].expiry_date
                    => \E p \in Procs : Commits(p, "extend") /\ call'[p].license_key = k
          ELSE \E p \in Procs : Commits(p, "delete") /\ call'[p].license_key = k
     /\ now' # now => licenses' = licenses
     /\ (Started("verify") \/ Started("auth") \/ response'.call.op = "me")
          => DOMAIN licenses' = DOMAIN licenses]_vars

\* A license expiring at time 0 was used for a login and reset, and after
\* the clock passed its expiry a verification was refused: it is still
\* stored, with the expiry it had.
C30_Witness ==
  /\ now = 1
  /\ response.call.op = "verify"
  /\ response.status = 401
  /\ Stored(response.call.license_key)
  /\ licenses[response.call.license_key].expiry_date = 0
  /\ licenses[response.call.license_key].is_active
  /\ tokens # {}
  /\ [action |-> "reset", target_key |-> response.call.license_key]
       \in {admin_logs[i] : i \in DOMAIN admin_logs}

\* This step belongs to a call that names key k.
StepFor(k) ==
  \/ response'.call.license_key = k
  \/ \E p \in Procs :
       \/ pc[p] = "idle" /\ pc'[p] # "idle" /\ call'[p].license_key = k
       \/ pc[p] # "idle" /\ pc'[p] # pc[p] /\ call[p].license_key = k

\* C31: operations on one key never change the record of another: every step
\* that changes or removes the license of key k is a step of a call that
\* names k, whatever calls for other keys are in progress.
C31_OtherKeysUntouched ==
  [][\A k \in DOMAIN licenses :
       (k \notin DOMAIN licenses' \/ licenses'[k] # licenses[k]) => StepFor(k)]_vars

\* K1 was verified by D2 and K2 extended: each license shows its own call
\* only.
C31_Witness ==
  /\ DOMAIN licenses = {"K1", "K2"}
  /\ licenses["K1"].hwid = "D2"
  /\ licenses["K1"].last_used # NoTime
  /\ licenses["K1"].expiry_date = 1
  /\ licenses["K2"].hwid = NULL
  /\ licenses["K2"].last_used = NoTime
  /\ licenses["K2"].expiry_date = 1 + ExtendDays
  /\ usage_stats = <<[license_key |-> "K1", hwid |-> "D2"]>>

\* C32: first-use binding is race-free across /api/verify and
\* /api/auth/local: a login that gets past its binding step for device d and
\* answers 200 with a token, and a verification that gets past its binding
\* step for d after a login for the key has succeeded, finds the usable
\* license unbound or bound to d, so that of a Verify and a login, or of two
\* logins, racing for an unbound license with different devices at most one
\* succeeds and the stored device is its own.
C32_BindingPathsRaceFree ==
  [][\A p \in Procs :
       LET k == call[p].license_key
           d == call[p].hwid
       IN (/\ \/ pc[p] = "a_update" /\ pc'[p] = "idle" /\ response'.status = 200
              \/ /\ pc[p] = "v_update" /\ pc'[p] = "v_log"
                 /\ \E tok \in tokens : tok.license_key = k
           /\ Stored(k)
           /\ Usable(licenses[k], now))
            => licenses[k].hwid \in {NULL, d}]_vars

\* C33: Verify checks existence and is_active first, then expiry, then the
\* binding: a deactivated license, expired or bound to another device or
\* not, is answered 401 invalid license key, and an active license with
\* expiry_date <= now that is bound to another device 401 license expired,
\* not the 403 of a mismatch.
C33_VerifyCheckOrder ==
  [][(VerifyArrives /\ Stored(NewCall.license_key))
       => LET row == licenses[NewCall.license_key]
          IN /\ ~row.is_active => Sent = Reply(401, "invalid license key")
             /\ (/\ row.is_active
                 /\ row.expiry_date <= now
                 /\ row.hwid \notin {NULL, NewCall.hwid})
                  => Sent = Reply(401, "license expired")]_vars

C35_AuthenticateReadOnly ==
  [][response'.call.op = "me"
       => /\ licenses' = licenses
          /\ usage_stats' = usage_stats
          /\ admin_logs' = admin_logs
          /\ tokens' = tokens]_vars

\* A token was accepted for a license that no verification has ever used.
C35_Witness ==
  /\ response.call.op = "me"
  /\ response.status = 200
  /\ Stored(response.call.license_key)
  /\ licenses[response.call.license_key].last_used = NoTime
  /\ usage_stats = <<>>

\* C36: the outcome of /api/users/me does not depend on the stored hwid: for
\* every issued token the check gives the same result whatever device, or
\* none, the license is bound to, and a request with a token of a usable
\* license that is before its expiry is answered 200 (the store answering),
\* also after a reset and a binding to another device.
C36_AuthenticateIgnoresDevice ==
  /\ [](\A tok \in tokens, d \in AnyDevice \cup {NULL}, edge \in BOOLEAN :
          Stored(tok.license_key)
            => MeKind(WithHwid(licenses, tok.license_key, d), "signed", tok, now, edge, TRUE)
                 = MeKind(licenses, "signed", tok, now, edge, TRUE))
  /\ [][\A k \in Keys :
          (/\ MeStep(k)
           /\ Stored(k)
           /\ Usable(licenses[k], now)
           /\ AllAhead(k, now)
           /\ response'.status # 500)
            => response'.status = 200]_vars

\* A license that started unbound or bound to D1 was reset and is now bound
\* to D2, and a token of it was accepted.
C36_Witness ==
  /\ response.call.op = "me"
  /\ response.status = 200
  /\ Stored(response.call.license_key)
  /\ licenses[response.call.license_key].hwid = "D2"
  /\ Usable(licenses[response.call.license_key], now)
  /\ admin_logs = <<[action |-> "reset", target_key |-> response.call.license_key]>>

\* C37: recording a usage event is all-or-nothing: a stored license has a
\* usage record exactly if its last_used is set, and the log_usage step of a
\* Verify call either appends one record and sets last_used to the current
\* time, or appends none and leaves last_used as it was.
C37_UsageAllOrNothing ==
  /\ [](\A k \in DOMAIN licenses :
          (\E i \in DOMAIN usage_stats : usage_stats[i].license_key = k)
            <=> licenses[k].last_used # NoTime)
  /\ [][\A p \in Procs :
          (pc[p] = "v_log" /\ pc'[p] = "idle")
            => LET k == call[p].license_key
               IN \/ /\ Len(usage_stats') = Len(usage_stats) + 1
                     /\ licenses'[k].last_used = now
                  \/ /\ usage_stats' = usage_stats
                     /\ licenses'[k].last_used = licenses[k].last_used]_vars

\* A verification at time 0 was recorded; one at time 1 succeeded with its
\* usage write failing: one record, last_used still 0.
C37_Witness ==
  /\ now = 1
  /\ response.call.op = "verify"
  /\ response.status = 200
  /\ Len(usage_stats) = 1
  /\ usage_stats[1].license_key = response.call.license_key
  /\ licenses[response.call.license_key].last_used = 0

\* C38: the audit row of a create, extend, reset or delete call is written
\* only after its statement has been committed: the step that commits writes
\* no audit row; a call that answers with the error message has written
\* none and changed no license; and the log_action step, whether its INSERT
\* succeeds or not, leaves the committed licenses as they are and answers
\* with the success message.
C38_AuditAfterCommit ==
  [][/\ \A p \in Procs, op \in AdminOps :
          /\ Commits(p, op) => admin_logs' = admin_logs
          /\ Logs(p, op)
               => /\ licenses' = licenses
                  /\ response'.call = call[p]
                  /\ response'.error = "success"
     /\ admin_logs' # admin_logs
          => \E p \in Procs : pc[p] = "log" /\ pc'[p] = "idle"
     /\ (response'.call.op \in AdminOps /\ response'.error = "error")
          => /\ calls' = calls + 1
             /\ admin_logs' = admin_logs
             /\ licenses' = licenses]_vars

\* A license was created and the call reported success although its audit
\* write failed: the license is stored, the log is empty.
C38_Witness ==
  /\ response.call.op = "create"
  /\ response.error = "success"
  /\ Stored(response.call.license_key)
  /\ licenses[response.call.license_key].last_used = NoTime
  /\ admin_logs = <<>>

\* C39: CreateLicense never alters an existing license: a create call leaves
\* every stored license as it was and adds at most one; when the generated
\* key is already stored the call fails, the record of that key keeps all
\* its fields and no license is added; and the log_action step of a create
\* call changes no license.
C39_CreateKeepsExisting ==
  [][/\ Started("create")
          => /\ \A k \in DOMAIN licenses :
                  k \in DOMAIN licenses' /\ licenses'[k] = licenses[k]
             /\ Cardinality(DOMAIN licenses') <= Cardinality(DOMAIN licenses) + 1
             /\ DOMAIN licenses' \subseteq DOMAIN licenses \cup {NewCall.license_key}
             /\ Stored(NewCall.license_key)
                  => /\ licenses' = licenses
                     /\ response'.error \in {"error", "login"}
     /\ \A p \in Procs : Logs(p, "create") => licenses' = licenses]_vars

\* K2 was created, then a create call generated the stored key K1 and
\* failed: K1 is still bound to D1.
C39_Witness ==
  /\ response.call.op = "create"
  /\ response.call.license_key = "K1"
  /\ response.error = "error"
  /\ DOMAIN licenses = {"K1", "K2"}
  /\ licenses["K1"].hwid = "D1"
  /\ \E i \in DOMAIN admin_logs : admin_logs[i] = [action |-> "create", target_key |-> "K2"]

=============================================================================
